---- MODULE Spec2Model ----
(***************************************************************************)
(* A model of the deen dictionary core: the keyword set (core/keyword.c)   *)
(* and the install orchestrator with its indexer callback                  *)
(* (core/install.c).  Text is modelled as sequences of bytes (naturals     *)
(* 0..255); a C string is the sequence of its bytes before the NUL.        *)
(***************************************************************************)
EXTENDS Integers, Sequences, FiniteSets, TLC

(***************************************************************************)
(* Bounds of the model.                                                    *)
(***************************************************************************)
\* bytes (strlen + 1 per call) fed to deen_keywords_add_from_string in a run
MaxInputBytes == 6
\* longest input string of one call, in characters of Alphabet
MaxInputChars == 3
\* consecutive deen_keywords_adjust calls
MaxAdjustRun == 2
\* tokens (words and newlines) of the DING file given to an install
MaxFileTokens == 3
\* bytes of the buffer deen_install_check_for_ding_format reads (4096 in the
\* program); the files checked have one byte less, as many, or one more
CheckBufferBytes == 5
\* tokens of the DING file one read() of the copy takes
\* (DEEN_SIZE_FILE_COPY_BUFFER bytes in the program)
CopyBufferTokens == 2
MaxPrintChars == 3

(***************************************************************************)
(* Input alphabet: space, 'A', 'E', 'S', 'u' and the two-byte a-umlaut     *)
(* (0xC3 0xA4).  Every input string is valid UTF-8.                        *)
(***************************************************************************)
Alphabet == { <<32>>, <<65>>, <<69>>, <<83>>, <<117>>, <<195, 164>> }

RECURSIVE StringsOfChars(_)
StringsOfChars(n) ==
    IF n = 0 THEN { <<>> }
    ELSE { s \o c : s \in StringsOfChars(n - 1), c \in Alphabet }

InputStrings == UNION { StringsOfChars(n) : n \in 0..MaxInputChars }

(***************************************************************************)
(* Text primitives.                                                        *)
(***************************************************************************)
\* <ctype.h> isspace in the C locale
isspace(b) == b \in {9, 10, 11, 12, 13, 32}

\* deen_to_upper: a-z and the two-byte a/o/u/i/e umlauts; sharp s unchanged
deen_to_upper(s) ==
    [i \in 1..Len(s) |->
        IF s[i] >= 97 /\ s[i] <= 122 THEN s[i] - 32
        ELSE IF i > 1 /\ s[i - 1] = 195 /\ s[i] \in {164, 182, 188, 175, 171}
             THEN s[i] - 32
             ELSE s[i]]

\* length of the UTF-8 sequence led by byte b (0: not a leading byte)
Utf8LeadLen(b) ==
    IF b < 128 THEN 1
    ELSE IF b >= 194 /\ b <= 223 THEN 2
    ELSE IF b >= 224 /\ b <= 239 THEN 3
    ELSE IF b >= 240 /\ b <= 244 THEN 4
    ELSE 0

\* deen_utf8_sequences_count: the number of sequences, -1 when bad or incomplete
RECURSIVE Utf8CountFrom(_, _)
Utf8CountFrom(s, i) ==
    IF i > Len(s) THEN 0
    ELSE LET n == Utf8LeadLen(s[i]) IN
         IF n = 0 \/ i + n - 1 > Len(s) THEN -1
         ELSE LET rest == Utf8CountFrom(s, i + n) IN
              IF rest < 0 THEN -1 ELSE rest + 1

deen_utf8_sequences_count(s) == Utf8CountFrom(s, 1)

\* the common-word set: short upper-case German and English words
CommonWords == { <<65, 83>>, <<69, 83>> }

deen_is_common_upper_word(s) == s \in CommonWords

\* strcmp: -1, 0 or 1, bytes compared as unsigned char
RECURSIVE StrCmpFrom(_, _, _)
StrCmpFrom(a, b, i) ==
    IF i > Len(a) /\ i > Len(b) THEN 0
    ELSE IF i > Len(a) THEN -1
    ELSE IF i > Len(b) THEN 1
    ELSE IF a[i] < b[i] THEN -1
    ELSE IF a[i] > b[i] THEN 1
    ELSE StrCmpFrom(a, b, i + 1)

strcmp(a, b) == StrCmpFrom(a, b, 1)

(***************************************************************************)
(* core/keyword.c                                                          *)
(***************************************************************************)
\* the keywords are valid UTF-8 here, so the exit branches are not taken
deen_keywords_sequence_count_or_exit(c) == deen_utf8_sequences_count(c)

\* mutant: the order is by byte length instead of code-point count
compare_length_bytes(c1, c2) ==
    IF Len(c1) = Len(c2) THEN strcmp(c1, c2)
    ELSE IF Len(c1) < Len(c2) THEN 1 ELSE -1

deen_keywords_compare_length(c1, c2) ==
    LET sequence_count_1 == deen_keywords_sequence_count_or_exit(c1)
        sequence_count_2 == deen_keywords_sequence_count_or_exit(c2)
    IN  IF sequence_count_1 = sequence_count_2 THEN strcmp(c1, c2)
        ELSE IF sequence_count_1 < sequence_count_2 THEN 1 ELSE -1

\* qsort with deen_keywords_compare_length: the sorted arrangement
RECURSIVE InsertKeyword(_, _)
InsertKeyword(sorted, k) ==
    IF sorted = <<>> THEN <<k>>
    ELSE IF deen_keywords_compare_length(k, Head(sorted)) <= 0
         THEN <<k>> \o sorted
         ELSE <<Head(sorted)>> \o InsertKeyword(Tail(sorted), k)

RECURSIVE SortKeywords(_)
SortKeywords(ks) ==
    IF ks = <<>> THEN <<>>
    ELSE InsertKeyword(SortKeywords(Tail(ks)), Head(ks))

\* memcmp(keyword, prefix, prefix_len) = 0; the keyword ends in its NUL,
\* which no byte of the prefix equals
deen_keywords_has_prefix(ks, prefix) ==
    \E i \in 1..Len(ks) :
        LET kz == ks[i] \o <<0>> IN
        \A j \in 1..Len(prefix) : j <= Len(kz) /\ kz[j] = prefix[j]

\* the tokenizing loop of deen_keywords_add_from_string, from index i
RECURSIVE SkipWhile(_, _, _)
SkipWhile(s, i, space) ==
    IF i <= Len(s) /\ isspace(s[i]) = space THEN SkipWhile(s, i + 1, space) ELSE i

RECURSIVE AddTokens(_, _, _)
AddTokens(ks, input, i) ==
    IF i > Len(input) THEN ks
    ELSE LET start == SkipWhile(input, i, TRUE)
             end == SkipWhile(input, start, FALSE)
             token == SubSeq(input, start, end - 1)
             ks2 == IF end > start
                       /\ ~deen_is_common_upper_word(token)
                       /\ ~deen_keywords_has_prefix(ks, token)
                    THEN Append(ks, token)
                    ELSE ks
         IN  AddTokens(ks2, input, end)

deen_keywords_add_from_string(ks, input) ==
    SortKeywords(AddTokens(ks, deen_to_upper(input), 1))

\* strstr from index i: the index of the first occurrence, 0 when none
RECURSIVE FindPair(_, _, _)
FindPair(s, search, i) ==
    IF i + 1 > Len(s) THEN 0
    ELSE IF s[i] = search[1] /\ s[i + 1] = search[2] THEN i
    ELSE FindPair(s, search, i + 1)

\* the while loop of deen_keywords_single_substitute_german_usascii_abbreviations
RECURSIVE SubstituteFrom(_, _, _, _)
SubstituteFrom(s, i, search, replace) ==
    LET at == FindPair(s, search, i) IN
    IF at = 0 THEN s
    ELSE SubstituteFrom([s EXCEPT ![at] = replace[1], ![at + 1] = replace[2]],
                        at + 1, search, replace)

\* r is [str, adjusted]: the string and the disjunction accumulated so far
deen_keywords_single_substitute(r, search, replace) ==
    [str |-> SubstituteFrom(r.str, 1, search, replace),
     adjusted |-> r.adjusted \/ FindPair(r.str, search, 1) # 0]

\* mutant: AE is replaced by the bytes of E-diaeresis (r_Ee for r_Ae)
substitute_wrong_replacement(value) ==
    LET r0 == [str |-> value, adjusted |-> FALSE]
        r1 == deen_keywords_single_substitute(r0, <<69, 69>>, <<195, 139>>)
        r2 == deen_keywords_single_substitute(r1, <<85, 69>>, <<195, 156>>)
        r3 == deen_keywords_single_substitute(r2, <<79, 69>>, <<195, 150>>)
        r4 == deen_keywords_single_substitute(r3, <<65, 69>>, <<195, 139>>)
        r5 == deen_keywords_single_substitute(r4, <<73, 69>>, <<195, 143>>)
        r6 == deen_keywords_single_substitute(r5, <<83, 83>>, <<195, 159>>)
    IN  r6

deen_keywords_substitute_german_usascii_abbreviations(value) ==
    LET r0 == [str |-> value, adjusted |-> FALSE]
        r1 == deen_keywords_single_substitute(r0, <<69, 69>>, <<195, 139>>)
        r2 == deen_keywords_single_substitute(r1, <<85, 69>>, <<195, 156>>)
        r3 == deen_keywords_single_substitute(r2, <<79, 69>>, <<195, 150>>)
        r4 == deen_keywords_single_substitute(r3, <<65, 69>>, <<195, 132>>)
        r5 == deen_keywords_single_substitute(r4, <<73, 69>>, <<195, 143>>)
        r6 == deen_keywords_single_substitute(r5, <<83, 83>>, <<195, 159>>)
    IN  r6

\* mutant: the result is that of the last keyword, not the disjunction
adjust_last_result(ks) ==
    LET rs == [i \in 1..Len(ks) |->
                  deen_keywords_substitute_german_usascii_abbreviations(ks[i])]
    IN  [keywords |-> [i \in 1..Len(ks) |-> rs[i].str],
         adjusted |-> Len(ks) > 0 /\ rs[Len(ks)].adjusted]

\* mutant: the disjunction short-circuits, so no keyword after the first
\* changed one is substituted
adjust_short_circuit(ks) ==
    LET rs == [i \in 1..Len(ks) |->
                  deen_keywords_substitute_german_usascii_abbreviations(ks[i])]
        done(i) == \E j \in 1..(i - 1) : rs[j].adjusted
    IN  [keywords |-> [i \in 1..Len(ks) |-> IF done(i) THEN ks[i] ELSE rs[i].str],
         adjusted |-> \E i \in 1..Len(ks) : rs[i].adjusted]

\* deen_keywords_adjust: [keywords, adjusted]
deen_keywords_adjust(ks) ==
    LET rs == [i \in 1..Len(ks) |->
                  deen_keywords_substitute_german_usascii_abbreviations(ks[i])]
    IN  [keywords |-> [i \in 1..Len(ks) |-> rs[i].str],
         adjusted |-> \E i \in 1..Len(ks) : rs[i].adjusted]

(***************************************************************************)
(* The DING file of an install: a sequence of tokens, each a word of       *)
(* Vocabulary or a newline.  Adjacent words are separated by one space.    *)
(* Vocabulary: "a", "ab", "abcd", "es" (a common word), a-umlaut.          *)
(***************************************************************************)
NL == <<10>>

Vocabulary == { <<97>>, <<97, 98>>, <<97, 98, 99, 100>>, <<101, 115>>,
                <<195, 164>> }

RECURSIVE TokenSeqs(_)
TokenSeqs(n) ==
    IF n = 0 THEN { <<>> }
    ELSE { Append(f, t) : f \in TokenSeqs(n - 1), t \in Vocabulary \cup {NL} }

DingFiles == UNION { TokenSeqs(n) : n \in 0..MaxFileTokens }

\* bytes token k takes in file f: the word and the space before a next word
TokenBytes(f, k) ==
    IF f[k] = NL THEN 1
    ELSE Len(f[k]) + (IF k < Len(f) /\ f[k + 1] # NL THEN 1 ELSE 0)

\* offset of token k in file f (k = Len(f) + 1: the size of the file)
RECURSIVE TokenOffset(_, _)
TokenOffset(f, k) ==
    IF k <= 1 THEN 0 ELSE TokenOffset(f, k - 1) + TokenBytes(f, k - 1)

\* deen_for_each_word_from_file: the ref of token k is the offset after the
\* most recent newline
RECURSIVE TokenRef(_, _)
TokenRef(f, k) ==
    IF k <= 1 THEN 0
    ELSE IF f[k - 1] = NL THEN TokenOffset(f, k)
    ELSE TokenRef(f, k - 1)

\* deen_for_each_word_from_file: progress of word k, as (uint8_t)(progress*100)
TokenPercent(f, k) ==
    ((TokenOffset(f, k) + Len(f[k])) * 100) \div TokenOffset(f, Len(f) + 1)

\* index of the next word at or after k, 0 when there is none
RECURSIVE NextWord(_, _)
NextWord(f, k) ==
    IF k > Len(f) THEN 0
    ELSE IF f[k] # NL THEN k
    ELSE NextWord(f, k + 1)

\* DEEN_INDEXING_DEPTH and DEEN_INDEXING_MIN of constants.h
DEEN_INDEXING_DEPTH == 3
DEEN_INDEXING_MIN == 2

\* deen_utf8_crop_to_unicode_len: the first n sequences of s
RECURSIVE Utf8CropFrom(_, _, _)
Utf8CropFrom(s, i, n) ==
    IF n = 0 \/ i > Len(s) THEN SubSeq(s, 1, i - 1)
    ELSE Utf8CropFrom(s, i + Utf8LeadLen(s[i]), n - 1)

deen_utf8_crop_to_unicode_len(s, n) == Utf8CropFrom(s, 1, n)

(***************************************************************************)
(* core/install.c: the indexer                                             *)
(***************************************************************************)
\* qsort with deen_index_prefix_compare: insertion into the sorted bag
RECURSIVE InsertPrefix(_, _)
InsertPrefix(bag, p) ==
    IF bag = <<>> THEN <<p>>
    ELSE IF strcmp(p, Head(bag)) <= 0 THEN <<p>> \o bag
    ELSE <<Head(bag)>> \o InsertPrefix(Tail(bag), p)

deen_index_add_prefix_to_context(bag, p) == InsertPrefix(bag, p)

\* bsearch with deen_index_prefix_compare over the bag lo..hi
RECURSIVE BSearch(_, _, _, _)
BSearch(bag, p, lo, hi) ==
    IF lo > hi THEN FALSE
    ELSE LET mid == (lo + hi) \div 2
             c == strcmp(p, bag[mid])
         IN  IF c = 0 THEN TRUE
             ELSE IF c < 0 THEN BSearch(bag, p, lo, mid - 1)
             ELSE BSearch(bag, p, mid + 1, hi)

\* mutant: the prefix is added without the search for it
add_prefix_always(bag, p) == deen_index_add_prefix_to_context(bag, p)

deen_index_add_prefix_to_context_if_not_present(bag, p) ==
    IF Len(bag) = 0 \/ ~BSearch(bag, p, 1, Len(bag))
    THEN deen_index_add_prefix_to_context(bag, p)
    ELSE bag

\* deen_index_flush_context_prefixes_to_index: the deen_index_add call made,
\* if any, as events
deen_index_flush_context_prefixes_to_index(ref, bag) ==
    IF Len(bag) # 0 THEN << <<"add", ref, bag>> >> ELSE <<>>

\* mutant: the word is cropped without being uppercased first
CallbackPrefix_no_upper(s) ==
    IF Len(s) >= DEEN_INDEXING_MIN /\ ~deen_is_common_upper_word(deen_to_upper(s))
    THEN LET cropped == deen_utf8_crop_to_unicode_len(s, DEEN_INDEXING_DEPTH)
         IN  IF deen_utf8_sequences_count(cropped) >= DEEN_INDEXING_MIN
             THEN cropped ELSE <<>>
    ELSE <<>>

\* the prefix deen_index_callback puts in the bag for word s when it is not
\* cancelled; <<>> when the word gives none
CallbackPrefix(s) ==
    LET upper == deen_to_upper(s) IN
    IF Len(s) >= DEEN_INDEXING_MIN /\ ~deen_is_common_upper_word(upper)
    THEN LET cropped == deen_utf8_crop_to_unicode_len(upper, DEEN_INDEXING_DEPTH)
         IN  IF deen_utf8_sequences_count(cropped) >= DEEN_INDEXING_MIN
             THEN cropped ELSE <<>>
    ELSE <<>>


(***************************************************************************)
(* State.                                                                  *)
(***************************************************************************)
VARIABLES
    keywords,       \* deen_keywords: the array of keywords
    kwInputUsed,    \* bytes of input consumed so far (strlen + 1 per call)
    kwAdjustRun,    \* number of adjust calls since the last add_from_string
    kwBefore,       \* the keywords before the most recent adjust call
    kwAdjusted,     \* the value the most recent adjust call returned
    kwEverAdjusted  \* adjust has been called on this keyword set

kwVars == <<keywords, kwInputUsed, kwAdjustRun, kwBefore, kwAdjusted,
           kwEverAdjusted>>

VARIABLES
    pc,             \* position in deen_install_from_path
    ding,           \* the DING file given to the install
    rootExists,     \* the root directory exists
    dataExists,     \* the data file exists under the root
    indexExists,    \* the index file exists under the root
    dataTokens,     \* tokens of ding the data file holds, or held when it
                    \* was removed
    is_error,       \* is_error of deen_install_from_path
    dbOpen,         \* db is an open database
    fdData,         \* fd_data is an open descriptor
    events,         \* progress_cb deliveries, steps started, words handled by
                    \* the indexer callback and store calls
    failures,       \* the I/O operations that failed in this run
    cancelAt,       \* where is_cancelled_cb first returned true ("none": not yet);
                    \* from then on it returns true
    pos,            \* the tokenizer's next token of the data file
    current_ref,    \* index_context.current_ref
    prefixes,       \* index_context.prefixes[0 .. prefix_count - 1]
    last_percent,   \* (uint8_t) (index_context.lastprogress * 100.0)
    result          \* the value deen_install_from_path returned

instVars == <<pc, ding, rootExists, dataExists, indexExists, dataTokens,
              is_error, dbOpen, fdData, events, failures, cancelAt,
              pos, current_ref, prefixes, last_percent, result>>

VARIABLES
    ckInput,        \* the file deen_install_check_for_ding_format is called on
    ckResult        \* the value it returned ("none": not called yet)

ckVars == <<ckInput, ckResult>>

VARIABLES
    prInput,        \* the string, the range and LANG of the print call
    prPc,           \* "call" before the print call, "returned" after it
                    \* ("none": no print)
    prOut,          \* the bytes written to stdout
    prCalls,        \* the deen_utf8_sequence_len calls made: <<i, c_length>>
    prLog           \* the errors logged

prVars == <<prInput, prPc, prOut, prCalls, prLog>>

vars == <<kwVars, instVars, ckVars, prVars>>


AddFromString ==
    \E input \in InputStrings :
        /\ kwInputUsed + Len(input) + 1 <= MaxInputBytes
        /\ keywords' = deen_keywords_add_from_string(keywords, input)
        /\ kwInputUsed' = kwInputUsed + Len(input) + 1
        /\ kwAdjustRun' = 0
        /\ kwBefore' = <<>>
        /\ kwAdjusted' = FALSE
        /\ UNCHANGED kwEverAdjusted
        /\ UNCHANGED <<instVars, ckVars, prVars>>

Adjust ==
    /\ kwAdjustRun < MaxAdjustRun
    /\ keywords # <<>>
    /\ LET r == deen_keywords_adjust(keywords) IN
        /\ keywords' = r.keywords
        /\ kwAdjusted' = r.adjusted
    /\ kwBefore' = keywords
    /\ kwAdjustRun' = kwAdjustRun + 1
    /\ kwEverAdjusted' = TRUE
    /\ UNCHANGED kwInputUsed
    /\ UNCHANGED <<instVars, ckVars, prVars>>

KwNext == AddFromString \/ Adjust

(***************************************************************************)
(* core/install.c: deen_install_from_path                                  *)
(***************************************************************************)
\* (uint8_t) (-1.0f * 100.0) is out of range, so undefined: the low byte of
\* -100 where the conversion goes through int, 0 where it saturates
NegativePercent == {0, 156}


\* the content of the data file
data == SubSeq(ding, 1, dataTokens)

Progress(state, percent) == <<"progress", state, percent>>

\* DEEN_INSTALL_RAISE_ERROR
DEEN_INSTALL_RAISE_ERROR == << Progress("ERROR", 0) >>

\* is_cancelled_cb has returned true
cancelled == cancelAt # "none"

\* the values is_cancelled_cb can return
PollResults == IF cancelled THEN {TRUE} ELSE BOOLEAN

\* is_cancelled_cb is called and returns c
Polled(c) == cancelAt' = (IF c /\ ~cancelled THEN pc ELSE cancelAt)

NotPolled == UNCHANGED cancelAt

\* if (!is_error && !is_cancelled_cb(...)): the callback is called only when
\* is_error is false, and c is what it returns
PollUnlessError(c) == IF is_error THEN NotPolled ELSE Polled(c)

\* mutant: a step runs although an error was raised
Proceed_ignores_error(c) == ~c

Proceed(c) == ~is_error /\ ~c

\* remove() of a file that exists succeeds or fails
RemoveOutcomes(exists) == IF exists THEN {TRUE, FALSE} ELSE {TRUE}

\* mutant: the files of the earlier installation are left in place
deen_install_init_keeps_files ==
    IF ~rootExists
    THEN \E made \in BOOLEAN :
            /\ rootExists' = made
            /\ failures' = (IF made THEN failures ELSE failures \cup {"mkdir"})
            /\ UNCHANGED <<dataExists, indexExists>>
    ELSE UNCHANGED <<rootExists, dataExists, indexExists, failures>>

\* deen_install_init, whose result deen_install_from_path does not read
deen_install_init ==
    IF ~rootExists
    THEN \E made \in BOOLEAN :
            /\ rootExists' = made
            /\ failures' = (IF made THEN failures ELSE failures \cup {"mkdir"})
            /\ UNCHANGED <<dataExists, indexExists>>
    ELSE \E ri \in RemoveOutcomes(indexExists), rd \in RemoveOutcomes(dataExists) :
            /\ indexExists' = (indexExists /\ ~ri)
            /\ dataExists' = (dataExists /\ (~ri \/ ~rd))
            /\ failures' = (IF ri /\ rd THEN failures
                            ELSE failures \cup {"init_remove"})
            /\ UNCHANGED rootExists

\* lines 500-516
Begin ==
    /\ pc = "begin"
    /\ events' = << Progress("STARTING", 0) >>
    /\ deen_install_init
    /\ pc' = "copy"
    /\ NotPolled
    /\ UNCHANGED <<ding, dataTokens, is_error, dbOpen, fdData, pos, current_ref,
                   prefixes, last_percent, result>>
    /\ UNCHANGED <<kwVars, ckVars, prVars>>

\* DEEN_SIZE_FILE_COPY_BUFFER, in tokens
DEEN_SIZE_FILE_COPY_BUFFER == CopyBufferTokens

\* lines 520-577: the copy of the DING file to the data file in blocks of
\* DEEN_SIZE_FILE_COPY_BUFFER.  A read that fails ends the loop like the end
\* of the file, after the blocks read before it; what a failed write leaves
\* in the data file is never read
CopyFile ==
    \/ \E how \in {"src_open", "dest_open"} :
        /\ events' = events \o << <<"step", "copy">> >> \o DEEN_INSTALL_RAISE_ERROR
        /\ is_error' = TRUE
        /\ failures' = failures \cup {how}
        /\ UNCHANGED <<dataExists, dataTokens>>
    \/ /\ rootExists
       /\ \E n \in 0..Len(ding), how \in {"done", "read", "write"} :
            /\ how = "done" => n = Len(ding)
            /\ how = "read" => n < Len(ding) /\ n % DEEN_SIZE_FILE_COPY_BUFFER = 0
            /\ how = "write" => n = 0 /\ Len(ding) > 0
            /\ dataExists' = TRUE
            /\ dataTokens' = n
            /\ is_error' = (how = "write")
            /\ failures' = (IF how = "done" THEN failures ELSE failures \cup {how})
            /\ events' = events \o << <<"step", "copy">> >>
                         \o (IF how = "write" THEN DEEN_INSTALL_RAISE_ERROR ELSE <<>>)

Copy ==
    /\ pc = "copy"
    /\ pc' = "index_open"
    /\ \E c \in PollResults :
        /\ PollUnlessError(c)
        /\ IF Proceed(c) THEN CopyFile
           ELSE UNCHANGED <<dataExists, dataTokens, is_error, failures, events>>
    /\ UNCHANGED <<ding, rootExists, indexExists, dbOpen, fdData, pos, current_ref,
                   prefixes, last_percent, result>>
    /\ UNCHANGED <<kwVars, ckVars, prVars>>

\* lines 581-591: sqlite3_open_v2 creates the index file
IndexOpen ==
    /\ pc = "index_open"
    /\ pc' = "index_init"
    /\ \E c \in PollResults :
        /\ PollUnlessError(c)
        /\ IF Proceed(c)
           THEN \E opened \in (IF rootExists THEN BOOLEAN ELSE {FALSE}) :
                    /\ dbOpen' = opened
                    /\ indexExists' = (indexExists \/ opened)
                    /\ is_error' = ~opened
                    /\ failures' = (IF opened THEN failures
                                    ELSE failures \cup {"index_open"})
                    /\ events' = events \o << <<"step", "index_open">> >>
                                 \o (IF opened THEN <<>> ELSE DEEN_INSTALL_RAISE_ERROR)
           ELSE UNCHANGED <<dbOpen, indexExists, is_error, failures, events>>
    /\ UNCHANGED <<ding, rootExists, dataExists, dataTokens, fdData, pos,
                   current_ref, prefixes, last_percent, result>>
    /\ UNCHANGED <<kwVars, ckVars, prVars>>

\* lines 593-596: deen_index_init
IndexInit ==
    /\ pc = "index_init"
    /\ pc' = "data_open"
    /\ \E c \in PollResults :
        /\ PollUnlessError(c)
        /\ events' = (IF Proceed(c)
                      THEN events \o << <<"step", "index_init">> >>
                      ELSE events)
    /\ UNCHANGED <<ding, rootExists, dataExists, indexExists, dataTokens, is_error,
                   dbOpen, fdData, failures, pos, current_ref, prefixes,
                   last_percent, result>>
    /\ UNCHANGED <<kwVars, ckVars, prVars>>

\* lines 598-610: the data file is opened again for reading
DataOpen ==
    /\ pc = "data_open"
    /\ pc' = "index_start"
    /\ \E c \in PollResults :
        /\ PollUnlessError(c)
        /\ IF Proceed(c)
           THEN \E opened \in (IF dataExists THEN BOOLEAN ELSE {FALSE}) :
                    /\ fdData' = opened
                    /\ is_error' = ~opened
                    /\ failures' = (IF opened THEN failures
                                    ELSE failures \cup {"data_open"})
                    /\ events' = events \o << <<"step", "data_open">> >>
                                 \o (IF opened THEN <<>> ELSE DEEN_INSTALL_RAISE_ERROR)
           ELSE UNCHANGED <<fdData, is_error, failures, events>>
    /\ UNCHANGED <<ding, rootExists, dataExists, indexExists, dataTokens, dbOpen,
                   pos, current_ref, prefixes, last_percent, result>>
    /\ UNCHANGED <<kwVars, ckVars, prVars>>

\* lines 612-630: the index context is set up and the transaction begun
IndexStart ==
    /\ pc = "index_start"
    /\ \E c \in PollResults :
        /\ PollUnlessError(c)
        /\ IF Proceed(c)
           THEN /\ pc' = "words"
                /\ events' = events \o << <<"step", "indexing">>, <<"tx", "begin">> >>
                /\ last_percent' \in NegativePercent
           ELSE /\ pc' = "cleanup"
                /\ UNCHANGED <<events, last_percent>>
    /\ pos' = 1
    /\ current_ref' = 0
    /\ prefixes' = <<>>
    /\ UNCHANGED <<ding, rootExists, dataExists, indexExists, dataTokens, is_error,
                   dbOpen, fdData, failures, result>>
    /\ UNCHANGED <<kwVars, ckVars, prVars>>

\* mutant: the bag of the last line is not flushed
AfterWords_no_last_flush(evs, ref, bag, failed) ==
    /\ events' = evs
                 \o (IF failed THEN DEEN_INSTALL_RAISE_ERROR ELSE <<>>)
                 \o << <<"tx", "commit">> >>
    /\ prefixes' = <<>>
    /\ current_ref' = ref
    /\ is_error' = failed
    /\ pc' = "cleanup"

\* lines 632-656 after deen_for_each_word_from_file has returned: the error
\* is raised if it returned false, then the commit, then the last flush
AfterWords(evs, ref, bag, failed) ==
    /\ events' = evs
                 \o (IF failed THEN DEEN_INSTALL_RAISE_ERROR ELSE <<>>)
                 \o << <<"tx", "commit">> >>
                 \o deen_index_flush_context_prefixes_to_index(ref, bag)
    /\ prefixes' = <<>>
    /\ current_ref' = ref
    /\ is_error' = failed
    /\ pc' = "cleanup"

\* mutant: current_ref is not moved to the new ref
CallbackRefChange_keeps_ref(ctx, ref, percent) ==
    IF ctx.current_ref # ref
    THEN [evs |-> deen_index_flush_context_prefixes_to_index(
                      ctx.current_ref, ctx.prefixes),
          current_ref |-> ctx.current_ref,
          prefixes |-> <<>>,
          last_percent |-> ctx.last_percent]
    ELSE [evs |-> <<>>, current_ref |-> ctx.current_ref,
          prefixes |-> ctx.prefixes, last_percent |-> ctx.last_percent]

\* deen_index_callback, lines 418-435: on a new ref the bag is flushed and
\* the progress reported when its percentage differs from the last reported
CallbackRefChange(ctx, ref, percent) ==
    IF ctx.current_ref # ref
    THEN LET report == percent # ctx.last_percent IN
         [evs |-> deen_index_flush_context_prefixes_to_index(
                      ctx.current_ref, ctx.prefixes)
                  \o (IF report THEN << Progress("INDEXING", percent) >> ELSE <<>>),
          current_ref |-> ref,
          prefixes |-> <<>>,
          last_percent |-> IF report THEN percent ELSE ctx.last_percent]
    ELSE [evs |-> <<>>, current_ref |-> ctx.current_ref,
          prefixes |-> ctx.prefixes, last_percent |-> ctx.last_percent]

\* deen_index_callback, lines 437-474: is_cancelled_cb is called for a word
\* of at least DEEN_INDEXING_MIN bytes
CallbackPolls(s) == Len(s) >= DEEN_INDEXING_MIN

\* the callback's handling of word k of the data file, as an event: whether
\* is_cancelled_cb was called for it and, if so, what it returned
Word(k, polled, c) == <<"word", k, polled, c>>

\* deen_index_callback for the next word of the data file
IndexWord ==
    /\ pc = "words"
    /\ fdData
    /\ LET k == NextWord(data, pos) IN
        /\ k # 0
        /\ LET s == data[k]
               ctx == CallbackRefChange(
                          [current_ref |-> current_ref, prefixes |-> prefixes,
                           last_percent |-> last_percent],
                          TokenRef(data, k), TokenPercent(data, k))
               p == CallbackPrefix(s)
           IN
           /\ last_percent' = ctx.last_percent
           /\ \E c \in (IF CallbackPolls(s) THEN PollResults ELSE {FALSE}) :
                /\ IF CallbackPolls(s) THEN Polled(c) ELSE NotPolled
                /\ IF c
                   THEN /\ AfterWords(events \o ctx.evs
                                          \o << Word(k, CallbackPolls(s), c) >>,
                                      ctx.current_ref, ctx.prefixes, TRUE)
                        /\ UNCHANGED <<pos, failures>>
                   ELSE /\ events' = events \o ctx.evs
                                     \o << Word(k, CallbackPolls(s), c) >>
                        /\ current_ref' = ctx.current_ref
                        /\ prefixes' =
                             (IF p # <<>>
                              THEN deen_index_add_prefix_to_context_if_not_present(
                                       ctx.prefixes, p)
                              ELSE ctx.prefixes)
                        /\ pos' = k + 1
                        /\ UNCHANGED <<pc, is_error, failures>>
    /\ UNCHANGED <<ding, rootExists, dataExists, indexExists, dataTokens, dbOpen,
                   fdData, result>>
    /\ UNCHANGED <<kwVars, ckVars, prVars>>

\* deen_for_each_word_from_file returns: true at the end of the file, false
\* when a read fails
IndexEnd ==
    /\ pc = "words"
    /\ \E failed \in BOOLEAN :
        /\ ~failed => fdData /\ NextWord(data, pos) = 0
        /\ AfterWords(events, current_ref, prefixes, failed)
        /\ failures' = (IF failed THEN failures \cup {"tokenizer"} ELSE failures)
    /\ NotPolled
    /\ UNCHANGED <<ding, rootExists, dataExists, indexExists, dataTokens, dbOpen,
                   fdData, pos, last_percent, result>>
    /\ UNCHANGED <<kwVars, ckVars, prVars>>

\* mutant: the files are removed after an error only
CleanupNeeded_error_only(c) == is_error

\* line 698: is_error || is_cancelled_cb(...)
CleanupNeeded(c) == is_error \/ c

\* lines 684-702: the handles are closed and, after an error or when
\* cancelled, both files removed
Cleanup ==
    /\ pc = "cleanup"
    /\ pc' = "final"
    /\ \E c \in PollResults :
        /\ PollUnlessError(c)
        /\ IF CleanupNeeded(c)
           THEN \E rd \in RemoveOutcomes(dataExists), ri \in RemoveOutcomes(indexExists) :
                    /\ dataExists' = (dataExists /\ ~rd)
                    /\ indexExists' = (indexExists /\ ~ri)
                    /\ failures' = (IF rd /\ ri THEN failures
                                    ELSE failures \cup {"remove"})
           ELSE UNCHANGED <<dataExists, indexExists, failures>>
    /\ dbOpen' = FALSE
    /\ fdData' = FALSE
    /\ UNCHANGED <<ding, rootExists, dataTokens, is_error, events, pos, current_ref,
                   prefixes, last_percent, result>>
    /\ UNCHANGED <<kwVars, ckVars, prVars>>

\* mutant: COMPLETED is delivered whatever is_error holds
Return_always_completed ==
    /\ pc = "final"
    /\ pc' = "done"
    /\ result' = ~is_error
    /\ NotPolled
    /\ events' = events \o << Progress("COMPLETED", 100) >>
    /\ UNCHANGED <<ding, rootExists, dataExists, indexExists,
                   dataTokens, is_error, dbOpen, fdData, failures, pos,
                   current_ref, prefixes, last_percent>>
    /\ UNCHANGED <<kwVars, ckVars, prVars>>

\* lines 707-715
Return ==
    /\ pc = "final"
    /\ pc' = "done"
    /\ result' = ~is_error
    /\ \E c \in PollResults :
        /\ IF is_error THEN Polled(c) ELSE NotPolled
        /\ events' = events \o
             (IF ~is_error THEN << Progress("COMPLETED", 100) >>
              ELSE IF c THEN << Progress("IDLE", 0) >>
              ELSE <<>>)
    /\ UNCHANGED <<ding, rootExists, dataExists, indexExists, dataTokens, is_error,
                   dbOpen, fdData, failures, pos, current_ref, prefixes,
                   last_percent>>
    /\ UNCHANGED <<kwVars, ckVars, prVars>>

InstallNext ==
    \/ Begin
    \/ Copy
    \/ IndexOpen
    \/ IndexInit
    \/ DataOpen
    \/ IndexStart
    \/ IndexWord
    \/ IndexEnd
    \/ Cleanup
    \/ Return

(***************************************************************************)
(* core/install.c: deen_install_check_for_ding_format.  A file is its name, *)
(* whether open() and read() succeed on it, and its content: bytes among    *)
(* '#', newline, ':' and 'x'.                                               *)
(***************************************************************************)
DEEN_SIZE_CHECK_DING_BUFFER == CheckBufferBytes

RECURSIVE BytesOf(_)
BytesOf(n) ==
    IF n = 0 THEN { <<>> }
    ELSE { Append(c, b) : c \in BytesOf(n - 1), b \in {35, 10, 58, 120} }

CheckContents ==
    UNION { BytesOf(n) : n \in (CheckBufferBytes - 1)..(CheckBufferBytes + 1) }

\* the names "d", ".gz", "d.gz", "dgz." and "d.gzd"
CheckFilenames ==
    { <<100>>, <<46, 103, 122>>, <<100, 46, 103, 122>>, <<100, 103, 122, 46>>,
      <<100, 46, 103, 122, 100>> }

\* no check is under way
NoCheck ==
    [filename |-> <<>>, openable |-> FALSE, readable |-> FALSE, content |-> <<>>]

\* the content of a file that cannot be opened or read plays no part
CheckInputs ==
    { [filename |-> f, openable |-> TRUE, readable |-> TRUE, content |-> c] :
          f \in CheckFilenames, c \in CheckContents }
    \cup { [filename |-> f, openable |-> o, readable |-> FALSE, content |-> <<>>] :
              f \in CheckFilenames, o \in BOOLEAN }

\* lines 124-128
IsGzFilename(filename) ==
    /\ Len(filename) > 3
    /\ SubSeq(filename, Len(filename) - 2, Len(filename)) = <<46, 103, 122>>

\* the C string at the start of s: the bytes before the first NUL
RECURSIVE CString(_)
CString(s) ==
    IF s = <<>> \/ Head(s) = 0 THEN <<>> ELSE <<Head(s)>> \o CString(Tail(s))

\* the index of the first newline of buffer at or after upto, or the first
\* index after the buffer (lines 168-170; the indices are the code's plus 1)
RECURSIVE FindNewline(_, _)
FindNewline(buffer, upto) ==
    IF upto <= Len(buffer) /\ buffer[upto] # 10
    THEN FindNewline(buffer, upto + 1)
    ELSE upto

\* lines 156-194: the loop over the lines of the buffer, from index curr
RECURSIVE CheckLines(_, _)
CheckLines(buffer, curr) ==
    IF curr > Len(buffer) THEN "BAD_FORMAT"
    ELSE LET upto == FindNewline(buffer, curr) IN
         IF upto > Len(buffer) THEN "BAD_FORMAT"
         ELSE LET line == CString(SubSeq(buffer, curr, upto - 1))
                  first == IF line = <<>> THEN 0 ELSE line[1]
              IN  IF first # 35 /\ first # 10 /\ first # 0
                  THEN IF FindPair(line, <<58, 58>>, 1) # 0
                       THEN "OK" ELSE "BAD_FORMAT"
                  ELSE CheckLines(buffer, upto + 1)

\* deen_install_check_for_ding_format
deen_install_check_for_ding_format(in) ==
    IF IsGzFilename(in.filename) THEN "IS_COMPRESSED"
    ELSE IF ~in.openable THEN "IO_PROBLEM"
    ELSE IF ~in.readable \/ Len(in.content) < DEEN_SIZE_CHECK_DING_BUFFER
         THEN "TOO_SMALL"
    ELSE CheckLines(SubSeq(in.content, 1, DEEN_SIZE_CHECK_DING_BUFFER), 1)

CheckForDingFormat ==
    /\ ckResult = "none"
    /\ ckResult' = deen_install_check_for_ding_format(ckInput)
    /\ UNCHANGED ckInput
    /\ UNCHANGED <<kwVars, instVars, prVars>>

CheckNext == CheckForDingFormat

(***************************************************************************)
(* cli/rendercommon.c: deen_term_print_str_range.  The terminal is what    *)
(* LANG says; stdout is the bytes written so far.                          *)
(***************************************************************************)
\* x, a-umlaut, sharp s and the euro sign
PrintAlphabet == { <<120>>, <<195, 164>>, <<195, 159>>, <<226, 130, 172>> }

RECURSIVE PrintStringsOf(_)
PrintStringsOf(n) ==
    IF n = 0 THEN { <<>> }
    ELSE { s \o c : s \in PrintStringsOf(n - 1), c \in PrintAlphabet }

\* the valid UTF-8 strings of at most MaxPrintChars code points
PrintStrings == UNION { PrintStringsOf(n) : n \in 0..MaxPrintChars }

\* the offsets of str, from offset i on, at which a sequence starts or the
\* string ends
RECURSIVE BoundariesFrom(_, _)
BoundariesFrom(str, i) ==
    IF i >= Len(str) THEN {Len(str)}
    ELSE {i} \cup BoundariesFrom(str, i + Utf8LeadLen(str[i + 1]))

\* LANG: unset, "C", ".UTF-8" and "C.UTF-8"
LangValues ==
    { [null |-> TRUE, value |-> <<>>],
      [null |-> FALSE, value |-> <<67>>],
      [null |-> FALSE, value |-> <<46, 85, 84, 70, 45, 56>>],
      [null |-> FALSE, value |-> <<67, 46, 85, 84, 70, 45, 56>>] }

\* no string is being printed
NoPrint == [str |-> <<>>, from |-> 0, to |-> 0, lang |-> [null |-> TRUE, value |-> <<>>]]

\* a string, a range of it on sequence boundaries, and LANG
PrintInputs ==
    UNION { { [str |-> s, from |-> f, to |-> t, lang |-> l] :
                f \in { b \in BoundariesFrom(s, 0) : b <= t }, l \in LangValues } :
            <<s, t>> \in { <<s, t>> \in PrintStrings \X (0..(4 * MaxPrintChars)) :
                            t \in BoundariesFrom(s, 0) } }

\* deen_term_is_utf8_langenv
deen_term_is_utf8_langenv(lang_value) ==
    /\ ~lang_value.null
    /\ Len(lang_value.value) > 6
    /\ SubSeq(lang_value.value, Len(lang_value.value) - 5, Len(lang_value.value))
         = <<46, 85, 84, 70, 45, 56>>

\* deen_term_is_utf8, LANG being lang
deen_term_is_utf8(lang) == deen_term_is_utf8_langenv(lang)

\* deen_utf8_is_usascii_clean(&str[i], c_length)
deen_utf8_is_usascii_clean(str, i, c_length) ==
    \A k \in (i + 1)..(i + c_length) : str[k] < 128

\* deen_utf8_sequence_len(&str[i], c_length, &sequence_length): the value
\* returned and the length stored
deen_utf8_sequence_len(str, i, c_length) ==
    LET n == IF c_length = 0 THEN 0 ELSE Utf8LeadLen(str[i + 1]) IN
    IF c_length = 0 THEN [status |-> "INCOMPLETE", length |-> 0]
    ELSE IF n = 0 THEN [status |-> "BAD", length |-> 0]
    ELSE IF c_length < n THEN [status |-> "INCOMPLETE", length |-> 0]
    ELSE [status |-> "OK", length |-> n]

\* deen_utf8_usascii_equivalent(&str[i], c_length): the transliteration of
\* the sequence, <<>> for NULL
deen_utf8_usascii_equivalent(str, i, c_length) ==
    LET c == SubSeq(str, i + 1, i + Utf8LeadLen(str[i + 1])) IN
    IF c = <<195, 164>> THEN <<97, 101>>
    ELSE IF c = <<195, 159>> THEN <<115, 115>>
    ELSE <<>>

\* size_t arithmetic wraps modulo 2^w; w is 32 or 64 in a build and 30 here,
\* the widest the checker's integers hold.  All that is read of a wrapped
\* difference is that it exceeds every string length
SizeBits == 30

\* a - b in size_t
SizeSub(a, b) == (a - b) % (2 ^ SizeBits)

\* deen_term_print_ascii_str
deen_term_print_ascii_str(str, from, to) == SubSeq(str, from + 1, to)

\* lines 55-88: the loop from index i on, len being to - from; calls are
\* the deen_utf8_sequence_len calls made, as <<i, c_length>>
RECURSIVE PrintLoop(_, _, _, _, _, _)
PrintLoop(str, i, to, len, out, calls) ==
    IF ~(i < to) THEN [out |-> out, calls |-> calls, log |-> <<>>]
    ELSE LET c_length == SizeSub(len, i)
             seq == deen_utf8_sequence_len(str, i, c_length)
             sequence_length == seq.length
             made == Append(calls, <<i, c_length>>)
         IN  IF seq.status = "BAD"
             THEN [out |-> out, calls |-> made, log |-> <<"bad utf-8 sequence">>]
             ELSE IF seq.status = "INCOMPLETE"
             THEN [out |-> out, calls |-> made,
                   log |-> <<"incomplete utf-8 sequence">>]
             ELSE LET equivalent == deen_utf8_usascii_equivalent(str, i, c_length)
                      put == IF 1 = sequence_length THEN <<str[i + 1]>>
                             ELSE IF equivalent # <<>> THEN equivalent
                             ELSE <<63>>
                  IN  PrintLoop(str, i + sequence_length, to, len, out \o put, made)

\* deen_term_print_str_range
deen_term_print_str_range(str, from, to, lang) ==
    IF deen_term_is_utf8(lang)
    THEN [out |-> deen_term_print_ascii_str(str, from, to), calls |-> <<>>,
          log |-> <<>>]
    ELSE IF deen_utf8_is_usascii_clean(str, from, to - from)
    THEN [out |-> deen_term_print_ascii_str(str, from, to), calls |-> <<>>,
          log |-> <<>>]
    ELSE PrintLoop(str, from, to, to - from, <<>>, <<>>)

\* a call of deen_term_print_str_range with the range of prInput
PrintStrRange ==
    /\ prPc = "call"
    /\ prPc' = "returned"
    /\ LET r == deen_term_print_str_range(prInput.str, prInput.from, prInput.to,
                                          prInput.lang)
       IN  /\ prOut' = r.out
           /\ prCalls' = r.calls
           /\ prLog' = r.log
    /\ UNCHANGED prInput
    /\ UNCHANGED <<kwVars, instVars, ckVars>>

\* deen_term_print_str: the whole string
PrintStr ==
    /\ prPc = "call"
    /\ prPc' = "returned"
    /\ prInput' = [prInput EXCEPT !.from = 0, !.to = Len(prInput.str)]
    /\ LET r == deen_term_print_str_range(prInput.str, 0, Len(prInput.str),
                                          prInput.lang)
       IN  /\ prOut' = r.out
           /\ prCalls' = r.calls
           /\ prLog' = r.log
    /\ UNCHANGED <<kwVars, instVars, ckVars>>

PrintNext ==
    \/ PrintStrRange
    \/ PrintStr

(***************************************************************************)
(* Specifications: the keyword set on its own, with no install running,    *)
(* and one install, with an empty keyword set.                             *)
(***************************************************************************)

\* deen_keywords_create; no install is running
InitKeywords ==
    /\ keywords = <<>>
    /\ kwInputUsed = 0
    /\ kwAdjustRun = 0
    /\ kwBefore = <<>>
    /\ kwAdjusted = FALSE
    /\ kwEverAdjusted = FALSE
    /\ pc = "idle"
    /\ ding = <<>>
    /\ rootExists = FALSE
    /\ dataExists = FALSE
    /\ indexExists = FALSE
    /\ dataTokens = 0
    /\ is_error = FALSE
    /\ dbOpen = FALSE
    /\ fdData = FALSE
    /\ events = <<>>
    /\ failures = {}
    /\ cancelAt = "none"
    /\ pos = 1
    /\ current_ref = 0
    /\ prefixes = <<>>
    /\ last_percent = 0
    /\ result = FALSE
    /\ ckInput = NoCheck
    /\ ckResult = "none"
    /\ prInput = NoPrint
    /\ prPc = "none"
    /\ prOut = <<>>
    /\ prCalls = <<>>
    /\ prLog = <<>>

SpecKeywords == InitKeywords /\ [][KwNext]_vars

\* the state before deen_install_from_path is called: no root directory, an
\* empty one, or a complete earlier installation; the keyword set is empty
InitInstall ==
    /\ keywords = <<>>
    /\ kwInputUsed = 0
    /\ kwAdjustRun = 0
    /\ kwBefore = <<>>
    /\ kwAdjusted = FALSE
    /\ kwEverAdjusted = FALSE
    /\ pc = "begin"
    /\ ding \in DingFiles
    /\ \E fs \in { <<FALSE, FALSE, FALSE>>, <<TRUE, FALSE, FALSE>>,
                    <<TRUE, TRUE, TRUE>> } :
          /\ rootExists = fs[1]
          /\ dataExists = fs[2]
          /\ indexExists = fs[3]
    /\ dataTokens = (IF dataExists THEN Len(ding) ELSE 0)
    /\ is_error = FALSE
    /\ dbOpen = FALSE
    /\ fdData = FALSE
    /\ events = <<>>
    /\ failures = {}
    /\ cancelAt = "none"
    /\ pos = 1
    /\ current_ref = 0
    /\ prefixes = <<>>
    /\ last_percent = 0
    /\ result = FALSE
    /\ ckInput = NoCheck
    /\ ckResult = "none"
    /\ prInput = NoPrint
    /\ prPc = "none"
    /\ prOut = <<>>
    /\ prCalls = <<>>
    /\ prLog = <<>>

SpecInstall == InitInstall /\ [][InstallNext]_vars

\* the state before an install into a root directory that exists and holds
\* no file
InitInstallFresh ==
    /\ keywords = <<>>
    /\ kwInputUsed = 0
    /\ kwAdjustRun = 0
    /\ kwBefore = <<>>
    /\ kwAdjusted = FALSE
    /\ kwEverAdjusted = FALSE
    /\ pc = "begin"
    /\ ding \in DingFiles
    /\ rootExists = TRUE
    /\ dataExists = FALSE
    /\ indexExists = FALSE
    /\ dataTokens = (IF dataExists THEN Len(ding) ELSE 0)
    /\ is_error = FALSE
    /\ dbOpen = FALSE
    /\ fdData = FALSE
    /\ events = <<>>
    /\ failures = {}
    /\ cancelAt = "none"
    /\ pos = 1
    /\ current_ref = 0
    /\ prefixes = <<>>
    /\ last_percent = 0
    /\ result = FALSE
    /\ ckInput = NoCheck
    /\ ckResult = "none"
    /\ prInput = NoPrint
    /\ prPc = "none"
    /\ prOut = <<>>
    /\ prCalls = <<>>
    /\ prLog = <<>>

SpecInstallFresh == InitInstallFresh /\ [][InstallNext]_vars

\* the state before deen_install_check_for_ding_format is called on a file;
\* nothing is installed and no install is running
InitCheck ==
    /\ keywords = <<>>
    /\ kwInputUsed = 0
    /\ kwAdjustRun = 0
    /\ kwBefore = <<>>
    /\ kwAdjusted = FALSE
    /\ kwEverAdjusted = FALSE
    /\ pc = "idle"
    /\ ding = <<>>
    /\ rootExists = FALSE
    /\ dataExists = FALSE
    /\ indexExists = FALSE
    /\ dataTokens = 0
    /\ is_error = FALSE
    /\ dbOpen = FALSE
    /\ fdData = FALSE
    /\ events = <<>>
    /\ failures = {}
    /\ cancelAt = "none"
    /\ pos = 1
    /\ current_ref = 0
    /\ prefixes = <<>>
    /\ last_percent = 0
    /\ result = FALSE
    /\ ckInput \in CheckInputs
    /\ ckResult = "none"
    /\ prInput = NoPrint
    /\ prPc = "none"
    /\ prOut = <<>>
    /\ prCalls = <<>>
    /\ prLog = <<>>

SpecCheck == InitCheck /\ [][CheckNext]_vars

\* the state before a string is printed; no install is running
InitPrint ==
    /\ keywords = <<>>
    /\ kwInputUsed = 0
    /\ kwAdjustRun = 0
    /\ kwBefore = <<>>
    /\ kwAdjusted = FALSE
    /\ kwEverAdjusted = FALSE
    /\ pc = "idle"
    /\ ding = <<>>
    /\ rootExists = FALSE
    /\ dataExists = FALSE
    /\ indexExists = FALSE
    /\ dataTokens = 0
    /\ is_error = FALSE
    /\ dbOpen = FALSE
    /\ fdData = FALSE
    /\ events = <<>>
    /\ failures = {}
    /\ cancelAt = "none"
    /\ pos = 1
    /\ current_ref = 0
    /\ prefixes = <<>>
    /\ last_percent = 0
    /\ result = FALSE
    /\ ckInput = NoCheck
    /\ ckResult = "none"
    /\ prInput \in PrintInputs
    /\ prPc = "call"
    /\ prOut = <<>>
    /\ prCalls = <<>>
    /\ prLog = <<>>

SpecPrint == InitPrint /\ [][PrintNext]_vars

(***************************************************************************)
(* Properties of the keyword set.                                          *)
(***************************************************************************)
\* a is a byte-prefix of b, or equal to it
IsBytePrefix(a, b) == Len(a) <= Len(b) /\ SubSeq(b, 1, Len(a)) = a

\* Unicode code points of valid UTF-8: the bytes that are no continuation byte
CodePoints(s) == Cardinality({ i \in 1..Len(s) : s[i] < 128 \/ s[i] > 191 })

\* a sorts before b, or equals it, in lexicographic byte order
LexLeq(a, b) ==
    \/ IsBytePrefix(a, b)
    \/ \E i \in 1..Len(a) :
          /\ i <= Len(b)
          /\ SubSeq(a, 1, i - 1) = SubSeq(b, 1, i - 1)
          /\ a[i] < b[i]

\* C1: after any sequence of deen_keywords_add_from_string calls no member
\* of the keyword set is a byte-prefix of, or equal to, another member.
\* The code keeps a longer token that arrives after its own prefix.
C1_PrefixFree ==
    ~kwEverAdjusted =>
        \A i, j \in 1..Len(keywords) :
            i # j => ~IsBytePrefix(keywords[i], keywords[j])

\* C2: after every deen_keywords_add_from_string call the members are in
\* descending code-point count, and members of equal code-point count are in
\* ascending lexicographic byte order.
C2_Ordered ==
    kwAdjustRun = 0 =>
        \A i \in 1..(Len(keywords) - 1) :
            \/ CodePoints(keywords[i]) > CodePoints(keywords[i + 1])
            \/ /\ CodePoints(keywords[i]) = CodePoints(keywords[i + 1])
               /\ LexLeq(keywords[i], keywords[i + 1])

\* C2 witness: a set built by add_from_string in which a member of more code
\* points precedes a member of at least as many bytes (A A before A-umlaut)
C2_Witness ==
    /\ kwAdjustRun = 0
    /\ Len(keywords) >= 2
    /\ \E i \in 1..(Len(keywords) - 1) :
          /\ CodePoints(keywords[i]) > CodePoints(keywords[i + 1])
          /\ Len(keywords[i]) <= Len(keywords[i + 1])

\* C3: deen_keywords_adjust is idempotent: a second application leaves every
\* keyword's bytes as the first left them and returns false.
C3_AdjustIdempotent ==
    kwAdjustRun >= 2 => keywords = kwBefore /\ kwAdjusted = FALSE

\* C3 witness: adjust was applied twice to a set in which the first
\* application replaced overlapping digraphs (AEE became A, E-diaeresis)
C3_Witness ==
    /\ kwAdjustRun >= 2
    /\ Len(keywords) >= 2
    /\ \E i \in 1..Len(keywords) : keywords[i] = <<65, 195, 139>>

(***************************************************************************)
(* Properties of an install.                                               *)
(***************************************************************************)
\* the states delivered to progress_cb, in order
Delivered ==
    LET ps == SelectSeq(events, LAMBDA e : e[1] = "progress")
    IN  [i \in 1..Len(ps) |-> ps[i][2]]

IsDelivered(state) == \E i \in 1..Len(Delivered) : Delivered[i] = state

StepStarted(name) == \E i \in 1..Len(events) : events[i] = <<"step", name>>

\* the indices of the deen_index_add calls among the events
AddCalls == { i \in 1..Len(events) : events[i][1] = "add" }

\* the failures after which the code raises an error
RaisingFailures ==
    {"src_open", "dest_open", "write", "index_open", "data_open", "tokenizer"}

\* the poll points of lines 520-612 and of the indexer callback
InstallPolls ==
    {"copy", "index_open", "index_init", "data_open", "index_start", "words"}

\* C4: every call delivers STARTING, then zero or more INDEXING, then exactly
\* one final state and nothing after it: ERROR when the install fails, IDLE
\* when it is cancelled, COMPLETED when it succeeds.  (Stated for the runs in
\* which the callback does not first return true at line 710, after an error
\* was raised, where failed and cancelled are not told apart.)
C4_ProgressSequence ==
    (pc = "done" /\ cancelAt # "final") =>
        LET d == Delivered
            final == IF failures \cap RaisingFailures # {} THEN "ERROR"
                     ELSE IF cancelled THEN "IDLE"
                     ELSE "COMPLETED"
        IN  /\ Len(d) >= 2
            /\ d[1] = "STARTING"
            /\ \A i \in 2..(Len(d) - 1) : d[i] = "INDEXING"
            /\ d[Len(d)] = final

\* C5: if the cancellation callback starts returning true at a poll point of
\* the install and keeps returning true, the install returns false and never
\* delivers COMPLETED.
C5_CancelReturnsFalse ==
    (pc = "done" /\ cancelAt \in InstallPolls) =>
        (result = FALSE /\ ~IsDelivered("COMPLETED"))

\* C6: if the cancellation callback returns true at any poll point and keeps
\* returning true, and file removal succeeds, then on return neither the data
\* file nor the index file exists under the root.
C6_CancelLeavesNoFiles ==
    (pc = "done" /\ cancelled /\ "remove" \notin failures) =>
        (~dataExists /\ ~indexExists)

\* C6 witness: a cancellation during indexing, after both files were created
\* and a bag was written to the store, has returned with both files removed
C6_Witness ==
    /\ pc = "done"
    /\ cancelAt = "words"
    /\ failures = {}
    /\ StepStarted("index_open")
    /\ AddCalls # {}
    /\ ~dataExists /\ ~indexExists

\* C7: once an error has been raised no later install step is started, and
\* on return (file removal succeeding) both the copied data file and the
\* index file have been deleted.
C7_FailFast ==
    /\ \A i \in 1..Len(events) :
           events[i] = Progress("ERROR", 0) =>
               \A j \in (i + 1)..Len(events) : events[j][1] # "step"
    /\ (pc = "done" /\ IsDelivered("ERROR") /\ "remove" \notin failures) =>
           (~dataExists /\ ~indexExists)

\* C7 witness: the data file could not be re-opened after the copy and the
\* creation of the index; the install has returned with both files deleted
C7_Witness ==
    /\ pc = "done"
    /\ failures = {"data_open"}
    /\ ~cancelled
    /\ dataTokens > 0
    /\ StepStarted("copy") /\ StepStarted("index_open")
    /\ ~StepStarted("indexing")
    /\ ~dataExists /\ ~indexExists

\* C8: every I/O failure of an (uncancelled) install is surfaced: if creating
\* the root directory, removing the old files, opening the source or the
\* destination, or a read or a write of the copy fails, then ERROR is
\* delivered, the install returns false and no index is built from a partial
\* copy.
C8_IoFailuresSurfaced ==
    (/\ pc = "done"
     /\ ~cancelled
     /\ failures \cap {"mkdir", "init_remove", "src_open", "dest_open",
                       "read", "write"} # {}) =>
        (IsDelivered("ERROR") /\ result = FALSE /\ ~StepStarted("indexing"))

\* C9: in an install that is neither cancelled nor failing, every
\* deen_index_add call (every flush of a bag, the last line's included)
\* happens after deen_transaction_begin and before deen_transaction_commit.
C9_AddsInsideTransaction ==
    (~cancelled /\ failures = {}) =>
        \A i \in AddCalls :
            /\ \E b \in 1..(i - 1) : events[b] = <<"tx", "begin">>
            /\ \A c \in 1..(i - 1) : events[c] # <<"tx", "commit">>

\* C10: the refs passed to successive deen_index_add calls of an install are
\* strictly ascending, so no ref is flushed to the store twice.
C10_RefsAscending ==
    \A i, j \in AddCalls : i < j => events[i][2] < events[j][2]

\* C10 witness: an install has returned after flushing the bags of two lines,
\* the last of them after the end of the file
C10_Witness ==
    /\ pc = "done"
    /\ result = TRUE
    /\ failures = {}
    /\ ~cancelled
    /\ Cardinality(AddCalls) >= 2
    /\ events[Len(events) - 1][1] = "add"

(***************************************************************************)
(* The lookup side: the prefix store as the indexer's deen_index_add calls *)
(* filled it, and the keyword sets of a few queries.                       *)
(***************************************************************************)
\* the queries "abcd", "bcd", "ab abcd" and "a-umlaut ab"
QueryStrings ==
    { <<97, 98, 99, 100>>, <<98, 99, 100>>, <<97, 98, 32, 97, 98, 99, 100>>,
      <<195, 164, 32, 97, 98>> }

\* the keyword set of query q, as a set
QueryKeywords(q) ==
    LET ks == deen_keywords_add_from_string(<<>>, q)
    IN  { ks[i] : i \in 1..Len(ks) }

\* the keyword sets of the queries
QueryKeywordSets == { QueryKeywords(q) : q \in QueryStrings }

\* the search prefix of a keyword: its first D code points
SearchPrefix(k) == deen_utf8_crop_to_unicode_len(k, DEEN_INDEXING_DEPTH)

\* the (prefix, ref) pairs the deen_index_add calls wrote to the store
StoredPairs ==
    UNION { { <<events[i][3][j], events[i][2]>> : j \in 1..Len(events[i][3]) } :
            i \in AddCalls }

\* refs_for_keyword_prefixes: the refs stored for every search prefix of K;
\* an empty keyword set has no candidates
CandidateRefs(K) ==
    IF K = {} THEN {}
    ELSE { pr[2] : pr \in { x \in StoredPairs :
                               \A k \in K : <<SearchPrefix(k), x[2]>> \in StoredPairs } }

\* the words of the line of the data file that starts at offset ref
LineWords(ref) ==
    { data[k] : k \in { n \in 1..Len(data) :
                            data[n] # NL /\ TokenRef(data, n) = ref } }

\* the offsets at which the lines of the data file that hold a word start
LineRefs == { TokenRef(data, k) : k \in { n \in 1..Len(data) : data[n] # NL } }

\* a occurs in b
IsSubstring(a, b) ==
    \E i \in 0..(Len(b) - Len(a)) : SubSeq(b, i + 1, i + Len(a)) = a

\* an install has returned true after indexing the whole DING file
Installed ==
    pc = "done" /\ result = TRUE /\ failures = {} /\ ~cancelled

\* C11: candidate soundness.  After a successful install, for every
\* (prefix, ref) pair written to the store, the line starting at offset ref
\* holds a word whose uppercased form cropped to D code points is that
\* prefix; hence every ref in the intersection over a keyword set's search
\* prefixes is a line that holds, for each keyword, a word beginning with
\* the keyword's D-character upper prefix.
C11_CandidateSoundness ==
    (pc = "done" /\ result = TRUE) =>
        /\ \A pr \in StoredPairs :
              \E s \in LineWords(pr[2]) :
                  deen_utf8_crop_to_unicode_len(deen_to_upper(s),
                                                DEEN_INDEXING_DEPTH) = pr[1]
        /\ \A K \in QueryKeywordSets : \A ref \in CandidateRefs(K) :
              \A k \in K :
                  \E s \in LineWords(ref) :
                      IsBytePrefix(SearchPrefix(k), deen_to_upper(s))

\* C11 witness: after a successful install the store holds two prefixes
\* of one line, and a query of two keywords has that line as its candidate
C11_Witness ==
    /\ Installed
    /\ \E pr1, pr2 \in StoredPairs : pr1[1] # pr2[1] /\ pr1[2] = pr2[2]
    /\ \E K \in QueryKeywordSets :
          /\ Cardinality(K) >= 2
          /\ CandidateRefs(K) # {}

\* C12: candidate completeness.  After a successful install, if every
\* keyword of a keyword set occurs in a line of the DING file (as a
\* case-insensitive substring) and has at least M characters, the
\* intersection of the refs stored for the keywords' search prefixes
\* includes that line's ref.  The indexer stores the prefix of each word
\* only, so a keyword inside a word ("bcd" in "abcd") has no stored pair.
C12_CandidateCompleteness ==
    Installed =>
        \A K \in QueryKeywordSets : \A ref \in LineRefs :
            (/\ K # {}
             /\ \A k \in K :
                   /\ CodePoints(k) >= DEEN_INDEXING_MIN
                   /\ \E s \in LineWords(ref) : IsSubstring(k, deen_to_upper(s)))
                => ref \in CandidateRefs(K)

(***************************************************************************)
(* Properties of deen_install_check_for_ding_format.                       *)
(***************************************************************************)
\* the name ends in ".gz"
EndsInGz(filename) ==
    /\ Len(filename) >= 3
    /\ SubSeq(filename, Len(filename) - 2, Len(filename)) = <<46, 103, 122>>

\* the first 4 KiB of the file, when it has as many
FirstBlock == SubSeq(ckInput.content, 1, DEEN_SIZE_CHECK_DING_BUFFER)

\* buf[i..j] is a newline-terminated, non-empty, non-comment line of buf
\* that contains "::"
IsDataLine(buf, i, j) ==
    /\ i <= j
    /\ i = 1 \/ buf[i - 1] = 10
    /\ j + 1 <= Len(buf) /\ buf[j + 1] = 10
    /\ \A t \in i..j : buf[t] # 10
    /\ buf[i] # 35
    /\ \E t \in i..(j - 1) : buf[t] = 58 /\ buf[t + 1] = 58

HasDataLine(buf) == \E i, j \in 1..Len(buf) : IsDataLine(buf, i, j)

\* C13: for a file that is not named *.gz, can be opened and has at least
\* 4 KiB, the check returns OK if and only if at least one newline-terminated
\* line in the first 4 KiB is a non-comment, non-empty line containing "::",
\* and BAD_FORMAT otherwise; non-comment lines without "::" that precede such
\* a line do not change the result.  The code returns BAD_FORMAT at the first
\* non-comment line without "::".
C13_OkIffDataLine ==
    (/\ ckResult # "none"
     /\ ~EndsInGz(ckInput.filename)
     /\ ckInput.openable /\ ckInput.readable
     /\ Len(ckInput.content) >= DEEN_SIZE_CHECK_DING_BUFFER) =>
        ckResult = (IF HasDataLine(FirstBlock) THEN "OK" ELSE "BAD_FORMAT")

\* C14: the check returns the first applicable result in the order
\* IS_COMPRESSED (every filename that ends in ".gz", whether or not the file
\* exists), IO_PROBLEM (the file cannot be opened), TOO_SMALL (fewer than
\* 4096 bytes can be read), BAD_FORMAT, otherwise OK; and it writes no file.
\* The code does not take the name ".gz" itself for a compressed file.
C14_ResultOrder ==
    ckResult # "none" =>
        /\ IF EndsInGz(ckInput.filename) THEN ckResult = "IS_COMPRESSED"
           ELSE IF ~ckInput.openable THEN ckResult = "IO_PROBLEM"
           ELSE IF ~ckInput.readable
                   \/ Len(ckInput.content) < DEEN_SIZE_CHECK_DING_BUFFER
                THEN ckResult = "TOO_SMALL"
           ELSE ckResult \in {"BAD_FORMAT", "OK"}
        /\ ~rootExists /\ ~dataExists /\ ~indexExists

(***************************************************************************)
(* Further properties of the keyword set.                                  *)
(***************************************************************************)
\* C15: a token of the query is never treated as a keyword when it is a
\* common word or has fewer than M (DEEN_INDEXING_MIN) code points: after
\* deen_keywords_add_from_string every member of the keyword set is a
\* non-empty, non-common token with at least M code points.  The code has
\* no test of the token's length.
C15_KeywordsIndexable ==
    ~kwEverAdjusted =>
        \A i \in 1..Len(keywords) :
            /\ keywords[i] # <<>>
            /\ keywords[i] \notin CommonWords
            /\ CodePoints(keywords[i]) >= DEEN_INDEXING_MIN

(***************************************************************************)
(* Properties of the indexer callback.                                     *)
(***************************************************************************)
\* the indices of the words handled by the indexer callback among the events
WordCalls == { i \in 1..Len(events) : events[i][1] = "word" }

\* the indices of the INDEXING deliveries to progress_cb among the events
IndexingReports ==
    { i \in 1..Len(events) : events[i][1] = "progress" /\ events[i][2] = "INDEXING" }

\* the percentage most recently delivered to progress_cb before event i
RECURSIVE LastReported(_)
LastReported(i) ==
    IF i <= 1 THEN 0
    ELSE IF events[i - 1][1] = "progress" THEN events[i - 1][3]
    ELSE LastReported(i - 1)

\* C16: during indexing the cancellation callback is polled for every word
\* the tokenizer delivers, whatever the word's length; once it returns true
\* the indexer callback returns false for that word, so no later word is
\* processed and no prefix of that word is added to the bag.  The code does
\* not poll for a word of fewer than DEEN_INDEXING_MIN bytes.
C16_CancelPolledEveryWord ==
    /\ \A i \in WordCalls : events[i][3] = TRUE
    /\ \A i \in WordCalls :
          events[i][4] = TRUE =>
              /\ \A j \in WordCalls : j <= i
              /\ is_error
              /\ \A j \in AddCalls :
                    (j > i /\ events[j][2] = TokenRef(data, events[i][2])) =>
                        \A n \in 1..Len(events[j][3]) :
                            \E m \in 1..(events[i][2] - 1) :
                                /\ data[m] # NL
                                /\ TokenRef(data, m) = events[j][2]
                                /\ CallbackPrefix(data[m]) = events[j][3][n]

\* C17: during indexing, whenever the integer percentage of the word being
\* processed is greater than the percentage last reported, progress_cb is
\* invoked with state INDEXING and that percentage (also within a single
\* long line and on the first line of the file), so that after each word the
\* percentage last reported is the word's; the reported percentages never
\* decrease.  The code reports only when the ref changes.
C17_ProgressReported ==
    /\ \A i \in WordCalls :
          LastReported(i) = TokenPercent(data, events[i][2])
    /\ \A i, j \in IndexingReports : i < j => events[i][3] <= events[j][3]

\* the ASCII digraphs and the UTF-8 encodings of the letters they stand for
Digraphs ==
    { <<65, 69>>, <<79, 69>>, <<85, 69>>, <<73, 69>>, <<69, 69>>, <<83, 83>> }

UmlautOf(d) ==
    IF d = <<65, 69>> THEN <<195, 132>>
    ELSE IF d = <<79, 69>> THEN <<195, 150>>
    ELSE IF d = <<85, 69>> THEN <<195, 156>>
    ELSE IF d = <<73, 69>> THEN <<195, 143>>
    ELSE IF d = <<69, 69>> THEN <<195, 139>>
    ELSE <<195, 159>>

\* a digraph occurs in s at position t
DigraphAt(s, t) == t >= 1 /\ t < Len(s) /\ <<s[t], s[t + 1]>> \in Digraphs

HasDigraph(s) == \E t \in 1..Len(s) : DigraphAt(s, t)

\* C18: deen_keywords_adjust returns true if and only if at least one keyword
\* of the set contained one of the digraphs AE OE UE IE EE SS before the
\* call, and it applies the substitutions to every keyword of the set, not
\* only up to the first keyword that was changed: every keyword that held a
\* digraph is changed, and no keyword holds a digraph afterwards.
C18_AdjustResult ==
    kwAdjustRun >= 1 =>
        /\ kwAdjusted = (\E i \in 1..Len(kwBefore) : HasDigraph(kwBefore[i]))
        /\ Len(keywords) = Len(kwBefore)
        /\ \A i \in 1..Len(keywords) :
              /\ (keywords[i] # kwBefore[i]) = HasDigraph(kwBefore[i])
              /\ ~HasDigraph(keywords[i])

\* C18 witness: adjust returned true on a set in which it changed two
\* keywords (AE and SS)
C18_Witness ==
    /\ kwAdjustRun = 1
    /\ kwAdjusted = TRUE
    /\ \E i, j \in 1..Len(keywords) :
          /\ i < j
          /\ HasDigraph(kwBefore[i]) /\ keywords[i] # kwBefore[i]
          /\ HasDigraph(kwBefore[j]) /\ keywords[j] # kwBefore[j]

\* C19: the keyword-set ordering survives umlaut recovery: after
\* deen_keywords_adjust the first member still has the maximum code-point
\* count of the set and the members are still in descending code-point-count
\* order.  The code does not sort the set again after the substitutions.
C19_OrderSurvivesAdjust ==
    kwAdjustRun >= 1 =>
        \A i \in 1..(Len(keywords) - 1) :
            CodePoints(keywords[i]) >= CodePoints(keywords[i + 1])

\* the two bytes of s at position t
PairAt(s, t) == <<s[t], s[t + 1]>>

\* the digraph occurrence at position t of s was replaced, in r, by the
\* encoding of its letter
ReplacedAt(s, r, t) == DigraphAt(s, t) /\ PairAt(r, t) = UmlautOf(PairAt(s, t))

\* C20, as claimed: for every keyword and every position where one of the
\* digraphs AE OE UE IE EE SS occurs in it before deen_keywords_adjust
\* (including occurrences that overlap another digraph, as in UEE or SSS),
\* the two bytes at that position are afterwards the UTF-8 encoding of the
\* corresponding letter; every other byte, the byte length of each keyword
\* and the number of keywords are unchanged.
C20_EveryDigraphReplaced ==
    kwAdjustRun >= 1 =>
        /\ Len(keywords) = Len(kwBefore)
        /\ \A i \in 1..Len(keywords) :
              /\ Len(keywords[i]) = Len(kwBefore[i])
              /\ \A t \in 1..Len(kwBefore[i]) :
                    /\ DigraphAt(kwBefore[i], t) =>
                           ReplacedAt(kwBefore[i], keywords[i], t)
                    /\ (~DigraphAt(kwBefore[i], t) /\ ~DigraphAt(kwBefore[i], t - 1))
                           => keywords[i][t] = kwBefore[i][t]

\* C20, amended: every digraph occurrence that overlaps no other occurrence
\* is replaced by the encoding of its letter; of overlapping occurrences not
\* all are replaced, but every byte that changes is part of an occurrence
\* replaced by the encoding of its letter; every other byte, the byte length
\* of each keyword and the number of keywords are unchanged.
C20_IsolatedDigraphsReplaced ==
    kwAdjustRun >= 1 =>
        /\ Len(keywords) = Len(kwBefore)
        /\ \A i \in 1..Len(keywords) :
              /\ Len(keywords[i]) = Len(kwBefore[i])
              /\ \A t \in 1..Len(kwBefore[i]) :
                    /\ (/\ DigraphAt(kwBefore[i], t)
                        /\ ~DigraphAt(kwBefore[i], t - 1)
                        /\ ~DigraphAt(kwBefore[i], t + 1))
                           => ReplacedAt(kwBefore[i], keywords[i], t)
                    /\ keywords[i][t] # kwBefore[i][t] =>
                           \/ ReplacedAt(kwBefore[i], keywords[i], t)
                           \/ ReplacedAt(kwBefore[i], keywords[i], t - 1)

\* C20 witness: adjust has replaced the AE of a keyword AES and left its S,
\* and has left a keyword without a digraph (U) as it was
C20_Witness ==
    /\ kwAdjustRun = 1
    /\ \E i, j \in 1..Len(keywords) :
          /\ kwBefore[i] = <<65, 69, 83>>
          /\ keywords[i] = <<195, 132, 83>>
          /\ kwBefore[j] = <<85>>
          /\ keywords[j] = kwBefore[j]

(***************************************************************************)
(* Properties of the batches written to the store.                         *)
(***************************************************************************)
\* the prefixes of the qualifying words of the line at offset ref: the words
\* that are no common word and have at least M code points
QualifyingPrefixes(ref) ==
    { deen_utf8_crop_to_unicode_len(deen_to_upper(t), DEEN_INDEXING_DEPTH) :
        t \in { w \in LineWords(ref) :
                   /\ deen_to_upper(w) \notin CommonWords
                   /\ CodePoints(w) >= DEEN_INDEXING_MIN } }

\* the members of a sequence
Range(seq) == { seq[n] : n \in 1..Len(seq) }

\* seq is in strictly ascending byte order
StrictlyAscending(seq) ==
    \A n \in 1..(Len(seq) - 1) : seq[n] # seq[n + 1] /\ LexLeq(seq[n], seq[n + 1])

\* C21: after a successful (uncancelled, error-free) install, for every line
\* of the DING file, the first and the last included, deen_index_add was
\* called exactly once with that line's ref if the line has a qualifying
\* token and not at all otherwise, and the prefixes passed are exactly the
\* uppercased qualifying tokens of the line cropped to D code points.
C21_OneBatchPerLine ==
    Installed =>
        /\ \A i \in AddCalls : events[i][2] \in LineRefs
        /\ \A ref \in LineRefs :
              LET calls == { i \in AddCalls : events[i][2] = ref } IN
              /\ Cardinality(calls) = (IF QualifyingPrefixes(ref) = {} THEN 0 ELSE 1)
              /\ \A i \in calls : Range(events[i][3]) = QualifyingPrefixes(ref)

\* C21 witness: a successful install of a file whose first line and whose
\* last line each gave a batch
C21_Witness ==
    /\ Installed
    /\ data = ding
    /\ \E i, j \in AddCalls :
          /\ events[i][2] = 0
          /\ events[j][2] = TokenRef(data, Len(data))
          /\ events[j][2] > 0

\* C22: in every reachable state of the indexer the prefix bag is sorted in
\* ascending byte order and holds no duplicate prefix, so every batch passed
\* to deen_index_add is non-empty, sorted and duplicate-free; and the bag is
\* empty after each flush: when a word's callback has flushed, the bag holds
\* at most that word's prefix, and it is empty after the last flush.
C22_BagSortedNoDuplicates ==
    /\ StrictlyAscending(prefixes)
    /\ \A i \in 1..Len(events) :
          events[i][1] = "add" =>
              events[i][3] # <<>> /\ StrictlyAscending(events[i][3])
    /\ LET n == Len(events) IN
          (/\ n > 1
           /\ events[n][1] = "word"
           /\ events[n - 1][1] \in {"add", "progress"}) =>
              Range(prefixes) \subseteq {CallbackPrefix(data[events[n][2]])}
    /\ pc \in {"cleanup", "final", "done"} => prefixes = <<>>

\* C22 witness: the bag holds two prefixes after three words of one line,
\* one of them a repetition
C22_Witness ==
    /\ pc = "words"
    /\ Len(prefixes) = 2
    /\ Cardinality(WordCalls) = 3
    /\ AddCalls = {}
    /\ \A i \in WordCalls : CallbackPrefix(data[events[i][2]]) # <<>>

(***************************************************************************)
(* Properties of the files an install leaves and of what it reports.       *)
(***************************************************************************)
\* deen_is_installed: the data file exists
deen_is_installed == dataExists

\* the ERROR and COMPLETED deliveries to progress_cb, in order
TerminalReports ==
    SelectSeq(events, LAMBDA e : e[1] = "progress" /\ e[2] \in {"ERROR", "COMPLETED"})

\* C23: whenever deen_install_from_path returns true (equivalently, delivers
\* COMPLETED), the data file and the index file exist on return, so that
\* deen_is_installed is true; this for every point at which the cancel
\* callback may start returning true.
C23_TrueMeansInstalled ==
    (pc = "done" /\ (result = TRUE \/ IsDelivered("COMPLETED"))) =>
        dataExists /\ indexExists /\ deen_is_installed

\* C24: ERROR is delivered at most once, COMPLETED at most once and never in
\* a run that delivered ERROR; the install returns true if and only if
\* COMPLETED, with progress 1.0, was delivered.
C24_TerminalReports ==
    LET reports == TerminalReports
        completed == reports = << Progress("COMPLETED", 100) >>
    IN  /\ Len(reports) <= 1
        /\ completed => events[Len(events)] = Progress("COMPLETED", 100)
        /\ reports # <<>> /\ ~completed => reports[1][2] = "ERROR"
        /\ pc = "done" => (result = TRUE <=> completed)
        /\ pc # "done" => ~completed

\* C24 witness: an install whose write failed has returned false after one
\* ERROR and no COMPLETED
C24_Witness ==
    /\ pc = "done"
    /\ failures = {"write"}
    /\ ~cancelled
    /\ result = FALSE
    /\ TerminalReports = DEEN_INSTALL_RAISE_ERROR

\* C25: deen_install_from_path removes any existing index and data file
\* before it opens the source file, so after an install that fails or is
\* cancelled, the removals succeeding, deen_is_installed is false even when a
\* complete earlier installation was present.
C25_OldInstallationRemoved ==
    /\ (pc = "copy" /\ "init_remove" \notin failures) =>
          ~dataExists /\ ~indexExists
    /\ (/\ pc = "done"
        /\ failures \cap {"init_remove", "remove"} = {}
        /\ (IsDelivered("ERROR") \/ cancelled \/ result = FALSE)) =>
          ~deen_is_installed

\* C25 witness: an earlier installation was present (no copy was made, so
\* the tokens counted are those of the data file the install found), the
\* source file could not be opened, and nothing is installed on return
C25_Witness ==
    /\ pc = "done"
    /\ dataTokens > 0
    /\ ~StepStarted("index_open")
    /\ failures = {"src_open"}
    /\ ~cancelled
    /\ result = FALSE
    /\ ~deen_is_installed

(***************************************************************************)
(* Properties of the US-ASCII rendering.                                   *)
(***************************************************************************)
\* what a non-UTF-8 terminal is to show of the code points of str in
\* [i, to): the byte itself for US-ASCII, the US-ASCII equivalent when there
\* is one, '?' otherwise
RECURSIVE AsciiRendering(_, _, _)
AsciiRendering(str, i, to) ==
    IF i >= to THEN <<>>
    ELSE LET n == Utf8LeadLen(str[i + 1])
             equivalent == deen_utf8_usascii_equivalent(str, i, n)
         IN  (IF n = 1 THEN <<str[i + 1]>>
              ELSE IF equivalent # <<>> THEN equivalent
              ELSE <<63>>)
             \o AsciiRendering(str, i + n, to)

\* C26: on a non-UTF-8 terminal, for every valid UTF-8 string and every
\* range 0 <= from <= to <= length on sequence boundaries, from > 0 included,
\* deen_term_print_str_range emits output for every code point of [from, to)
\* in order, passes to deen_utf8_sequence_len exactly the number of bytes
\* remaining up to 'to', and never stops early with a bad or incomplete
\* sequence error.
C26_RangeRendered ==
    (prPc = "returned" /\ ~deen_term_is_utf8(prInput.lang)) =>
        /\ prOut = AsciiRendering(prInput.str, prInput.from, prInput.to)
        /\ \A k \in 1..Len(prCalls) : prCalls[k][2] = prInput.to - prCalls[k][1]
        /\ prLog = <<>>

====
